---- MODULE Spec2Model ----
(***************************************************************************)
(* Model of yolo-sample/train/fedavg_aggregate.py: the FedAvg batch job    *)
(* that discovers edge checkpoints, merges their parameters weighted by    *)
(* sample count and writes the merged checkpoint plus a provenance record. *)
(*                                                                         *)
(* Tensors are one-element tensors holding an exact rational <<num, den>>  *)
(* in lowest terms; floating-point rounding is not modelled.  A metadata   *)
(* file is identified by the rank of its name in lexicographic order, and  *)
(* the same number stands for its model_path and its node_id.              *)
(***************************************************************************)
EXTENDS Integers, Sequences, FiniteSets

VARIABLES
    edges,                  \* files on disk: metadata record + artifact, by filename rank
    listing,                \* what glob.glob returns: the filenames in directory order
    pc,                     \* position of the process
    models_data,            \* main's models_data: list of (model_path, metadata)
    total_samples,          \* fedavg_aggregate's total_samples
    idx,                    \* position of the for loop of fedavg_aggregate
    aggregated_state_dict,  \* None (<<>>) or <<mapping key -> rational>>
    merged,                 \* the tuples of models_data that reached "Aggregated"
    output_file,            \* the file at output_path: "absent", "partial", "complete"
    output_model,           \* None (<<>>) or <<state_dict stored in the output file>>
    provenance,             \* None (<<>>) or <<contents of *_metadata.json>>
    status                  \* None (<<>>) or <<exit status returned by main>>

vars == <<edges, listing, pc, models_data, total_samples, idx,
          aggregated_state_dict, merged, output_file, output_model,
          provenance, status>>

memory == <<models_data, total_samples, idx, aggregated_state_dict, merged>>
disk == <<output_file, output_model, provenance>>

----------------------------------------------------------------------------
(* Bounds *)
MaxEdges == 3

Keys == {"X", "Y"}
\* checkpoints either carry every key or lack X
KeySets == {Keys, {"Y"}}
\* tensor values of the documented example T = 1.0, 2.0
TensorValues == {1, 2}
Kinds == {"missing", "corrupt", "wrapped", "direct", "raw"}
SampleCounts == {0, 100, 300}

None == <<>>
Some(v) == <<v>>

----------------------------------------------------------------------------
(* Exact rationals standing for Python floats / torch tensors *)
RECURSIVE Gcd(_, _)
Gcd(a, b) == IF b = 0 THEN a ELSE Gcd(b, a % b)

Norm(q) == LET g == Gcd(q[1], q[2]) IN <<q[1] \div g, q[2] \div g>>

\* num_samples / total_samples (line 102); defined for total /= 0
Weight(num_samples, total) == Norm(<<num_samples, total>>)

\* value.clone() * weight (lines 129, 134)
Scale(value, weight) == Norm(<<value * weight[1], weight[2]>>)

\* tensor += tensor (line 134)
Add(a, b) == Norm(<<a[1] * b[2] + b[1] * a[2], a[2] * b[2]>>)

RECURSIVE SumImages(_)
SumImages(md) ==
    IF md = <<>> THEN 0 ELSE Head(md).num_images + SumImages(Tail(md))

----------------------------------------------------------------------------
(* load_edge_models *)
RECURSIVE Insert(_, _)
Insert(x, s) ==
    IF s = <<>> THEN <<x>>
    ELSE IF x <= Head(s) THEN <<x>> \o s
    ELSE <<Head(s)>> \o Insert(x, Tail(s))

RECURSIVE sorted(_)
sortedUnsorted(s) == s
sorted(s) == IF s = <<>> THEN <<>> ELSE Insert(Head(s), sorted(Tail(s)))

PathExists(f) == edges[f].kind /= "missing"

\* the loop of lines 48-58: skip a record whose artifact is missing
RECURSIVE CollectModels(_)
CollectModels(files) ==
    IF files = <<>> THEN <<>>
    ELSE LET f == Head(files)
             entry == [model_path |-> f, node_id |-> f,
                       num_images |-> edges[f].num_images]
         IN  IF PathExists(f) THEN <<entry>> \o CollectModels(Tail(files))
             ELSE CollectModels(Tail(files))

----------------------------------------------------------------------------
(* fedavg_aggregate *)
\* torch.load of lines 110 and 173 raises on a corrupt or missing artifact
LoadFails(path) == edges[path].kind \in {"corrupt", "missing"}

\* lines 113-118: the three checkpoint shapes all yield the state dict
ExtractStateDict(path) ==
    CASE edges[path].kind = "wrapped" -> edges[path].state_dict
      [] edges[path].kind = "direct"  -> edges[path].state_dict
      [] OTHER                        -> edges[path].state_dict

\* lines 127-129
InitAggregateUnweighted(state_dict, weight) ==
    [key \in DOMAIN state_dict |-> <<state_dict[key], 1>>]
InitAggregate(state_dict, weight) ==
    [key \in DOMAIN state_dict |-> Scale(state_dict[key], weight)]

\* lines 132-136
AddWeightedInject(agg, state_dict, weight) ==
    [key \in DOMAIN agg \cup DOMAIN state_dict |->
        IF key \in DOMAIN agg
        THEN IF key \in DOMAIN state_dict
             THEN Add(agg[key], Scale(state_dict[key], weight))
             ELSE agg[key]
        ELSE Scale(state_dict[key], weight)]
AddWeightedZero(agg, state_dict, weight) ==
    [key \in DOMAIN agg |->
        IF key \in DOMAIN state_dict
        THEN Add(agg[key], Scale(state_dict[key], weight))
        ELSE <<0, 1>>]
AddWeighted(agg, state_dict, weight) ==
    [key \in DOMAIN agg |->
        IF key \in DOMAIN state_dict
        THEN Add(agg[key], Scale(state_dict[key], weight))
        ELSE agg[key]]

\* lines 125-136
Accumulate(agg, state_dict, weight) ==
    IF agg = None
    THEN Some(InitAggregate(state_dict, weight))
    ELSE Some(AddWeighted(agg[1], state_dict, weight))

----------------------------------------------------------------------------
(* main's exits *)
\* lines 246-250: any exception ends the run with status 1
MainExceptZero ==
    /\ pc' = "done"
    /\ status' = Some(0)
MainExcept ==
    /\ pc' = "done"
    /\ status' = Some(1)

----------------------------------------------------------------------------
(* Actions *)
\* main line 226: load_edge_models, lines 29-68
LoadEdgeModels ==
    /\ pc = "start"
    /\ IF Len(listing) = 0
       THEN /\ MainExcept
            /\ UNCHANGED models_data
       ELSE /\ models_data' = CollectModels(sorted(listing))
            /\ pc' = "loaded"
            /\ UNCHANGED status
    /\ UNCHANGED <<edges, listing, total_samples, idx, aggregated_state_dict,
                   merged, disk>>

\* main lines 228-233 and fedavg_aggregate lines 89-98
FedAvgBegin ==
    /\ pc = "loaded"
    /\ IF Len(models_data) = 0
       THEN /\ pc' = "done"
            /\ status' = Some(1)
            /\ UNCHANGED <<total_samples, idx>>
       ELSE /\ total_samples' = SumImages(models_data)
            /\ idx' = 1
            /\ pc' = "loop"
            /\ UNCHANGED status
    /\ UNCHANGED <<edges, listing, models_data, aggregated_state_dict,
                   merged, disk>>

\* one iteration of the loop of lines 100-138
FedAvgStep ==
    /\ pc = "loop"
    /\ idx <= Len(models_data)
    /\ LET m == models_data[idx] IN
       IF total_samples = 0
       THEN /\ MainExcept       \* ZeroDivisionError at line 102
            /\ UNCHANGED <<idx, aggregated_state_dict, merged>>
       ELSE IF LoadFails(m.model_path)
       THEN /\ idx' = idx + 1   \* lines 120-122
            /\ UNCHANGED <<pc, status, aggregated_state_dict, merged>>
       ELSE /\ aggregated_state_dict' =
                   Accumulate(aggregated_state_dict,
                              ExtractStateDict(m.model_path),
                              Weight(m.num_images, total_samples))
            /\ merged' = Append(merged, m)
            /\ idx' = idx + 1
            /\ UNCHANGED <<pc, status>>
    /\ UNCHANGED <<edges, listing, models_data, total_samples, disk>>

\* lines 140-143
FedAvgEnd ==
    /\ pc = "loop"
    /\ idx > Len(models_data)
    /\ IF aggregated_state_dict = None
       THEN MainExcept
       ELSE /\ pc' = "save"
            /\ UNCHANGED status
    /\ UNCHANGED <<edges, listing, memory, disk>>

\* lines 155-169
Provenance(md) ==
    [num_edge_models |-> Len(md),
     total_training_samples |-> SumImages(md),
     edge_models |-> [k \in 1..Len(md) |->
                         [node_id |-> md[k].node_id,
                          num_images |-> md[k].num_images,
                          weight |-> Weight(md[k].num_images, SumImages(md))]]]

\* lines 171-176: the first tuple of models_data is the template
TemplateFails(md, state_dict) ==
    LET base == md[1].model_path IN
    \/ SumImages(md) = 0                             \* line 165
    \/ LoadFails(base)                               \* line 173
    \/ edges[base].kind /= "wrapped"                 \* base_checkpoint['model']
    \/ DOMAIN edges[base].state_dict /= DOMAIN state_dict   \* strict load_state_dict

\* save_aggregated_model lines 150-179, up to torch.save opening the file
SaveBegin ==
    /\ pc = "save"
    /\ IF TemplateFails(models_data, aggregated_state_dict[1])
       THEN /\ MainExcept
            /\ UNCHANGED output_file
       ELSE /\ pc' = "torch_save"
            /\ output_file' = "partial"
            /\ UNCHANGED status
    /\ UNCHANGED <<edges, listing, memory, output_model, provenance>>

\* line 179: torch.save finishes writing output_path
TorchSave ==
    /\ pc = "torch_save"
    /\ output_file' = "complete"
    /\ output_model' = aggregated_state_dict
    /\ pc' = "dump_metadata"
    /\ UNCHANGED <<edges, listing, memory, provenance, status>>

\* lines 182-195 and main lines 238-244
SaveMetadata ==
    /\ pc = "dump_metadata"
    /\ provenance' = Some(Provenance(models_data))
    /\ pc' = "done"
    /\ status' = Some(0)
    /\ UNCHANGED <<edges, listing, memory, output_file, output_model>>

\* the process is terminated from outside: its memory is lost, the disk stays
Kill ==
    /\ pc \notin {"done", "killed"}
    /\ pc' = "killed"
    /\ models_data' = <<>>
    /\ total_samples' = 0
    /\ idx' = 0
    /\ aggregated_state_dict' = None
    /\ merged' = <<>>
    /\ UNCHANGED <<edges, listing, disk, status>>

Next ==
    \/ LoadEdgeModels
    \/ FedAvgBegin
    \/ FedAvgStep
    \/ FedAvgEnd
    \/ SaveBegin
    \/ TorchSave
    \/ SaveMetadata
    \/ Kill

----------------------------------------------------------------------------
(* Initial states: the directory tree handed to the job *)
StateDicts == UNION {[ks -> TensorValues] : ks \in KeySets}
UnitDicts == {[key \in ks |-> 1] : ks \in KeySets}

\* an artifact that is missing or cannot be read has no contents to vary
Contributions(kinds, counts, dicts) ==
    {c \in [kind : kinds, num_images : counts, state_dict : dicts] :
        c.kind \in {"missing", "corrupt"}
            => c.state_dict = CHOOSE d \in dicts : TRUE}

Registries(contribs) == UNION {[1..n -> contribs] : n \in 0..MaxEdges}

Listings(n) ==
    {p \in [1..n -> 1..n] : \A i, j \in 1..n : i /= j => p[i] /= p[j]}

Descending(n) == [i \in 1..n |-> n + 1 - i]

Fresh ==
    /\ pc = "start"
    /\ models_data = <<>>
    /\ total_samples = 0
    /\ idx = 0
    /\ aggregated_state_dict = None
    /\ merged = <<>>
    /\ output_file = "absent"
    /\ output_model = None
    /\ provenance = None
    /\ status = None

\* every artifact kind and sample count, one fixed tensor per key
Init ==
    /\ edges \in Registries(Contributions(Kinds, SampleCounts,
                                          {[key \in Keys |-> 1]}))
    /\ listing = Descending(Len(edges))
    /\ Fresh

\* every tensor and key set, positive sample counts, loads may fail
InitMerge ==
    /\ edges \in Registries(Contributions({"corrupt", "wrapped"},
                                          SampleCounts \ {0}, StateDicts))
    /\ listing = Descending(Len(edges))
    /\ Fresh

\* every directory order
InitOrder ==
    /\ edges \in Registries(Contributions({"missing", "corrupt", "wrapped"},
                                          {100}, UnitDicts))
    /\ listing \in Listings(Len(edges))
    /\ Fresh

Spec == Init /\ [][Next]_vars
SpecMerge == InitMerge /\ [][Next]_vars
SpecOrder == InitOrder /\ [][Next]_vars

----------------------------------------------------------------------------
(* Properties *)
RECURSIVE SeqSum(_)
SeqSum(s) == IF s = <<>> THEN 0 ELSE Head(s) + SeqSum(Tail(s))

Files == 1..Len(edges)
Unreadable(f) == edges[f].kind \in {"missing", "corrupt"}
TensorsOf(m) == edges[m.model_path].state_dict

\* C1: when fedavg_aggregate returns, total_samples is the sum of the sample
\* counts of the contributions that were loaded and merged, so the applied
\* weights n_k / total_samples sum to 1 (sample counts positive, as the
\* data model requires of a contribution).
C1_DenominatorCountsOnlyLoaded ==
    (pc = "save" /\ \A f \in Files : edges[f].num_images > 0)
    => total_samples = SumImages(merged)

\* C2: when exactly one artifact fails to load (the first one included) and
\* every other contribution is a loadable wrapped checkpoint with a positive
\* sample count, main writes the output and returns status 0.
C2_SingleLoadFailureIsSkipped ==
    ( /\ pc = "done"
      /\ Cardinality({f \in Files : edges[f].kind = "corrupt"}) = 1
      /\ \E f \in Files : edges[f].kind = "wrapped"
      /\ \A f \in Files : /\ edges[f].kind \in {"corrupt", "wrapped"}
                          /\ edges[f].num_images > 0 )
    => (status = Some(0) /\ output_file = "complete")

\* C3: a contribution with num_images = 0 is never merged and never listed
\* in the edge_models list of the provenance record.
C3_ZeroSampleExcluded ==
    /\ \A k \in 1..Len(merged) : merged[k].num_images > 0
    /\ provenance /= None
         => \A k \in 1..Len(provenance[1].edge_models) :
                provenance[1].edge_models[k].num_images > 0

\* C4: the provenance record describes exactly the merged contributions:
\* their number, the sum of their sample counts, and per contribution the
\* weight fedavg_aggregate applied (sample counts positive).
C4_ProvenanceDescribesMerged ==
    (provenance /= None /\ \A f \in Files : edges[f].num_images > 0) =>
        LET p == provenance[1] IN
        /\ p.num_edge_models = Len(merged)
        /\ p.total_training_samples = SumImages(merged)
        /\ Len(p.edge_models) = Len(merged)
        /\ \A k \in 1..Len(merged) :
              /\ p.edge_models[k].node_id = merged[k].node_id
              /\ p.edge_models[k].weight =
                     Weight(merged[k].num_images, total_samples)

\* C5: when no contribution is usable (no metadata record, or every artifact
\* missing or failing to load) main never returns 0 and ends with status 1.
C5_NoUsableIsFatal ==
    (\A f \in Files : Unreadable(f))
    => (status /= Some(0) /\ (pc = "done" => status = Some(1)))

C5_Witness ==
    /\ pc = "done"
    /\ status = Some(1)
    /\ Len(edges) >= 2
    /\ idx > Len(models_data)
    /\ \A f \in Files : edges[f].kind = "corrupt"

\* C6: for N >= 1 contributions that all load, with positive sample counts
\* and the same key set, fedavg_aggregate returns for every key the weighted
\* mean sum_k (n_k / sum_j n_j) * T_k.
C6_WeightedMean ==
    ( /\ pc = "save"
      /\ Len(edges) >= 1
      /\ \A f \in Files : ~Unreadable(f) /\ edges[f].num_images > 0
      /\ \A f \in Files :
            DOMAIN edges[f].state_dict = DOMAIN edges[1].state_dict )
    => /\ DOMAIN aggregated_state_dict[1] = DOMAIN edges[1].state_dict
       /\ \A key \in DOMAIN edges[1].state_dict :
             aggregated_state_dict[1][key] =
                Norm(<<SeqSum([f \in Files |->
                          edges[f].num_images * edges[f].state_dict[key]]),
                       SeqSum([f \in Files |-> edges[f].num_images])>>)

\* samples 100 and 300 with T = 1.0 and 2.0 give 1.75 = 7/4
C6_Witness ==
    /\ pc = "save"
    /\ Len(edges) = 2
    /\ edges[1] = [kind |-> "wrapped", num_images |-> 100,
                   state_dict |-> [key \in {"Y"} |-> 1]]
    /\ edges[2] = [kind |-> "wrapped", num_images |-> 300,
                   state_dict |-> [key \in {"Y"} |-> 2]]
    /\ aggregated_state_dict[1]["Y"] = <<7, 4>>

\* the run over the same files when the directory lists them in name order
RECURSIVE MergeInNameOrder(_, _, _)
MergeInNameOrder(f, total, agg) ==
    IF f > Len(edges) THEN agg
    ELSE IF Unreadable(f) THEN MergeInNameOrder(f + 1, total, agg)
    ELSE MergeInNameOrder(f + 1, total,
            Accumulate(agg, edges[f].state_dict,
                       Weight(edges[f].num_images, total)))

\* C8: whatever order the directory listing has, the contributions are
\* processed in the lexicographic order of their metadata filenames, and the
\* merged map equals the one of the run whose listing is in name order.
C8_DeterministicOrder ==
    /\ pc \notin {"start", "killed"}
         => /\ \A i, j \in 1..Len(models_data) :
                  i < j => models_data[i].model_path < models_data[j].model_path
            /\ {models_data[i].model_path : i \in 1..Len(models_data)}
                  = {f \in Files : PathExists(f)}
    /\ pc = "save"
         => aggregated_state_dict =
               MergeInNameOrder(1,
                   SeqSum([f \in Files |->
                       IF PathExists(f) THEN edges[f].num_images ELSE 0]),
                   None)

C8_Witness ==
    /\ pc = "save"
    /\ Len(models_data) >= 2
    /\ \E i, j \in 1..Len(listing) : i < j /\ listing[i] > listing[j]
    /\ DOMAIN TensorsOf(models_data[1]) /= DOMAIN TensorsOf(models_data[2])

\* C9: after every step of the accumulation loop the key set of the running
\* aggregate is the key set of the first successfully loaded contribution.
C9_KeySetOfFirstLoaded ==
    /\ aggregated_state_dict = None <=> merged = <<>>
    /\ aggregated_state_dict /= None
         => DOMAIN aggregated_state_dict[1] = DOMAIN TensorsOf(merged[1])

C9_Witness ==
    /\ pc = "loop"
    /\ Len(merged) >= 2
    /\ \E key \in DOMAIN TensorsOf(merged[2]) :
          key \notin DOMAIN aggregated_state_dict[1]

\* C10: after every step of the loop, each key X of the running aggregate
\* holds the sum of w_k * T_k[X] over the merged contributions that contain
\* X, with w_k = n_k / (sum of the sample counts of all of models_data): a
\* contribution lacking X leaves X unchanged.
C10_MissingKeyLeftUntouched ==
    aggregated_state_dict /= None =>
        \A key \in DOMAIN TensorsOf(merged[1]) :
            /\ key \in DOMAIN aggregated_state_dict[1]
            /\ aggregated_state_dict[1][key] =
                  Norm(<<SeqSum([k \in 1..Len(merged) |->
                            IF key \in DOMAIN TensorsOf(merged[k])
                            THEN merged[k].num_images * TensorsOf(merged[k])[key]
                            ELSE 0]),
                         SumImages(models_data)>>)

C10_Witness ==
    /\ pc = "save"
    /\ Len(merged) = 3
    /\ "X" \in DOMAIN TensorsOf(merged[1])
    /\ "X" \notin DOMAIN TensorsOf(merged[2])
    /\ "X" \in DOMAIN TensorsOf(merged[3])

\* C7: if the process is terminated at any point, the output path does not
\* hold a partially written aggregation.
C7_NoPartialOutputAfterKill ==
    pc = "killed" => output_file /= "partial"

====
